---- MODULE Spec2Model ----
(***************************************************************************)
(* The GDP dashboard of streamlit_app.py as a state machine.               *)
(*                                                                         *)
(* The script runs top to bottom on every interaction.  One run is the     *)
(* chain  Load -> Controls -> FilterData -> Chart -> Metric* -> Footer;    *)
(* an uncaught exception ends the run where it is raised.  Between runs    *)
(* the user moves the year slider or changes the country selection.  The   *)
(* only state that outlives a run is the st.cache_data entry of            *)
(* load_gdp_data and the widget values kept by the Streamlit session.      *)
(*                                                                         *)
(* Floating point numbers are exact rationals <<n, d>> in lowest terms,    *)
(* with <<0, 0>> for NaN and <<1, 0>> for +inf; binary rounding of the     *)
(* IEEE operations is not modelled.                                        *)
(***************************************************************************)
EXTENDS Integers, Sequences, FiniteSets, TLC

\* ------------------------------------------------------------------ bounds

\* Number of year columns the loader asks for (63 in the source: 1960..2022).
NumYears == 2

\* Largest number of data rows of the CSV file.
MaxRows == 3

\* ------------------------------------------------------- program constants

MIN_YEAR == 1960

MAX_YEAR == MIN_YEAR + NumYears - 1

BILLION == 1000000000

NumCols == 4

\* The `default` of the multiselect.  The tables of the model have at most
\* MaxRows rows, so the list is cut to its first entry; line 74 treats every
\* entry alike.
DefaultCountries == <<"DEU">>

WarningText == "Please select at least one country."

\* --------------------------------------------------------------- numbers

NaN == <<0, 0>>

Inf == <<1, 0>>

Num(n) == <<n, 1>>

RECURSIVE Gcd(_, _)
Gcd(a, b) == IF b = 0 THEN a ELSE Gcd(b, a % b)

IsNaN(x) == x = NaN

IsInf(x) == x = Inf

IsZero(x) == x[1] = 0 /\ x[2] # 0

\* x / y for non-negative floats, as numpy.float64 divides: a zero divisor
\* gives inf or nan and raises nothing.
Div(x, y) ==
    IF IsNaN(x) \/ IsNaN(y) THEN NaN
    ELSE IF IsInf(y) THEN (IF IsInf(x) THEN NaN ELSE Num(0))
    ELSE IF IsInf(x) THEN Inf
    ELSE IF IsZero(y) THEN (IF IsZero(x) THEN NaN ELSE Inf)
    ELSE LET g1 == Gcd(x[1], y[1])
             g2 == Gcd(x[2], y[2])
             n  == (x[1] \div (IF g1 = 0 THEN 1 ELSE g1)) * (y[2] \div g2)
             d  == (x[2] \div g2) * (y[1] \div (IF g1 = 0 THEN 1 ELSE g1))
         IN  IF n = 0 THEN Num(0) ELSE <<n, d>>

\* Nearest integer to n / d (d > 0), ties to the even neighbour, which is how
\* the 'f' presentation type rounds.
RoundHalfEven(n, d) ==
    LET q == n \div d
        r == n % d
    IN  IF 2 * r < d THEN q
        ELSE IF 2 * r > d THEN q + 1
        ELSE IF q % 2 = 0 THEN q ELSE q + 1

Pad(k, width) ==
    IF width = 3 /\ k < 10 THEN "00" \o ToString(k)
    ELSE IF width >= 2 /\ k < 10 THEN "0" \o ToString(k)
    ELSE IF width = 3 /\ k < 100 THEN "0" \o ToString(k)
    ELSE ToString(k)

\* format(x, ".2f")
Format2f(x) ==
    IF IsNaN(x) THEN "nan"
    ELSE IF IsInf(x) THEN "inf"
    ELSE LET h == RoundHalfEven(x[1] * 100, x[2])
         IN  ToString(h \div 100) \o "." \o Pad(h % 100, 2)

RECURSIVE Grouped(_)
Grouped(k) ==
    IF k < 1000 THEN ToString(k)
    ELSE Grouped(k \div 1000) \o "," \o Pad(k % 1000, 3)

\* format(x, ",.0f")
FormatComma0f(x) ==
    IF IsNaN(x) THEN "nan"
    ELSE IF IsInf(x) THEN "inf"
    ELSE Grouped(RoundHalfEven(x[1], x[2]))

\* ------------------------------------------------------------ the CSV file

\* An empty Country Code cell is read as NaN as well; it prints as "nan" and
\* is the one code that the elementwise == of pandas never finds equal to
\* anything, itself included.
NaNCode == "nan"

Codes == {"DEU", "XYZ", NaNCode}

\* GDP cells the rows of the model carry: an empty cell, a zero and three
\* amounts.  Row r of a table holds a window of this cycle.
GdpCycle == <<NaN, Num(200), Num(100), Num(450), Num(0)>>

Years == MIN_YEAR .. MAX_YEAR

\* str(year)
Str(year) == ToString(year)

YearColumns == [k \in 1..NumYears |-> Str(MIN_YEAR + k - 1)]

YearColumnSet == {YearColumns[k] : k \in 1..NumYears}

ExpectedColumns == {"Country Name", "Country Code"} \cup YearColumnSet

\* The headers a file may have: the expected ones, one required column
\* dropped, or one year header misspelt so that it is no integer.
ColumnSets ==
    {ExpectedColumns}
    \cup {ExpectedColumns \ {c} : c \in YearColumnSet \cup {"Country Code"}}
    \cup {(ExpectedColumns \ {c}) \cup {"Y" \o c} : c \in YearColumnSet}

Cell(shift, r, c) ==
    LET k == CHOOSE j \in 1..NumYears : YearColumns[j] = c
    IN  GdpCycle[((shift + r + k) % Len(GdpCycle)) + 1]

\* What pd.read_csv returns for a file with header `columns` and one row per
\* entry of `codes`.
Table(columns, codes, shift) ==
    [columns |-> columns,
     rows |-> [r \in 1..Len(codes) |->
                 [c \in columns |->
                    IF c = "Country Code" THEN codes[r]
                    ELSE IF c = "Country Name" THEN "name"
                    ELSE IF c \in YearColumnSet THEN Cell(shift, r, c)
                    ELSE Cell(shift, r, CHOOSE y \in YearColumnSet : "Y" \o y = c)]]]

RawTables ==
    {Table(columns, codes, shift) :
        columns \in ColumnSets,
        codes \in UNION {[1..n -> Codes] : n \in 0..MaxRows},
        shift \in 0..(Len(GdpCycle) - 1)}

\* ------------------------------------------------------------------ pandas

RECURSIVE SeqConcat(_)
SeqConcat(ss) == IF ss = <<>> THEN <<>> ELSE Head(ss) \o SeqConcat(Tail(ss))

\* pd.to_numeric on a column header: the integer the decimal string denotes.
ToNumeric(s) == CHOOSE n \in Years : ToString(n) = s

\* Melt as it would be with dropna() chained to it: observations of empty
\* cells are left out.
MeltDropNa(raw, id_vars, value_vars) ==
    IF \E k \in 1..Len(id_vars \o value_vars) :
           (id_vars \o value_vars)[k] \notin raw.columns
    THEN [raises |-> TRUE, df |-> <<>>]
    ELSE [raises |-> FALSE,
          df |-> SeqConcat([k \in 1..Len(value_vars) |->
                    LET block == [r \in 1..Len(raw.rows) |->
                                    [code |-> raw.rows[r][id_vars[1]],
                                     year |-> value_vars[k],
                                     gdp  |-> raw.rows[r][value_vars[k]]]]
                        HasValue(row) == ~IsNaN(row.gdp)
                    IN  SelectSeq(block, HasValue)])]

\* Melt as it would be if value columns the frame lacks were passed over
\* instead of raising.
MeltSkipAbsent(raw, id_vars, value_vars) ==
    IF \E k \in 1..Len(id_vars) : id_vars[k] \notin raw.columns
    THEN [raises |-> TRUE, df |-> <<>>]
    ELSE LET Present(c) == c \in raw.columns
             present == SelectSeq(value_vars, Present)
         IN  [raises |-> FALSE,
              df |-> SeqConcat([k \in 1..Len(present) |->
                        [r \in 1..Len(raw.rows) |->
                            [code |-> raw.rows[r][id_vars[1]],
                             year |-> present[k],
                             gdp  |-> raw.rows[r][present[k]]]]])]

\* DataFrame.melt(id_vars, value_vars, var_name, value_name).  KeyError when
\* an id or value column is not in the frame.  Otherwise one block per value
\* column, in the order of value_vars; inside a block one row per row of the
\* frame, in the frame's order.  The variable column holds the header string
\* and the value column the cell as it is.
Melt(raw, id_vars, value_vars) ==
    IF \E k \in 1..Len(id_vars \o value_vars) :
           (id_vars \o value_vars)[k] \notin raw.columns
    THEN [raises |-> TRUE, df |-> <<>>]
    ELSE [raises |-> FALSE,
          df |-> SeqConcat([k \in 1..Len(value_vars) |->
                    [r \in 1..Len(raw.rows) |->
                        [code |-> raw.rows[r][id_vars[1]],
                         year |-> value_vars[k],
                         gdp  |-> raw.rows[r][value_vars[k]]]]])]

\* Lines 33-43, the body of load_gdp_data after read_csv: melt, then the Year
\* column is made numeric.
LoadGdpData(raw) ==
    LET melted == Melt(raw, <<"Country Code">>, YearColumns)
    IN  IF melted.raises THEN melted
        ELSE [raises |-> FALSE,
              df |-> [k \in 1..Len(melted.df) |->
                        [melted.df[k] EXCEPT !.year = ToNumeric(@)]]]

\* Series.unique(): the distinct values in order of first appearance (NaN is
\* one value).
RECURSIVE Unique(_)
Unique(s) ==
    IF s = <<>> THEN <<>>
    ELSE LET front == Unique(SubSeq(s, 1, Len(s) - 1))
             last  == s[Len(s)]
         IN  IF \E k \in 1..Len(front) : front[k] = last THEN front
             ELSE Append(front, last)

\* Series.isin(values): membership, under which NaN is found in a list that
\* holds NaN.
IsIn(code, values) == \E k \in 1..Len(values) : values[k] = code

\* Elementwise == on the object column: NaN equals nothing.
CodeEq(a, b) == a # NaNCode /\ b # NaNCode /\ a = b

CountryCodes(df) == [k \in 1..Len(df) |-> df[k].code]

\* The filter with an exclusive upper end of the year range.
FilterRowsExclusiveTo(df, countries, from, to) ==
    LET mask(row) == IsIn(row.code, countries) /\ row.year >= from /\ row.year < to
    IN  SelectSeq(df, mask)

\* The filter without the lower end of the year range.
FilterRowsIgnoreFrom(df, countries, from, to) ==
    LET mask(row) == IsIn(row.code, countries) /\ row.year <= to
    IN  SelectSeq(df, mask)

\* The filter taking an empty selection for "all countries".
FilterRowsEmptyMeansAll(df, countries, from, to) ==
    LET mask(row) == /\ (countries = <<>> \/ IsIn(row.code, countries))
                     /\ row.year >= from /\ row.year <= to
    IN  SelectSeq(df, mask)

\* Lines 87-91.  df[mask] keeps the rows whose mask is true, in the frame's
\* order.
FilterRows(df, countries, from, to) ==
    LET mask(row) == IsIn(row.code, countries) /\ row.year >= from /\ row.year <= to
    IN  SelectSeq(df, mask)

\* Lines 110-111: gdp_df[gdp_df['Year'] == year]
YearData(df, year) ==
    LET mask(row) == row.year = year
    IN  SelectSeq(df, mask)

\* Lines 120-121: year_data[year_data['Country Code'] == country]['GDP']
CountryGdp(year_data, country) ==
    LET mask(row) == CodeEq(row.code, country)
        rows == SelectSeq(year_data, mask)
    IN  [k \in 1..Len(rows) |-> rows[k].gdp]

\* The growth with a zero first value treated like a missing one.
GrowthZeroNotAvailable(first_gdp, last_gdp) ==
    IF IsNaN(first_gdp) \/ IsZero(first_gdp)
    THEN [delta |-> "N/A", delta_color |-> "off"]
    ELSE [delta |-> Format2f(Div(last_gdp, first_gdp)) \o "x", delta_color |-> "normal"]

\* Lines 124-129: the delta of the metric card and its colour.
Growth(first_gdp, last_gdp) ==
    IF IsNaN(first_gdp)
    THEN [delta |-> "N/A", delta_color |-> "off"]
    ELSE [delta |-> Format2f(Div(last_gdp, first_gdp)) \o "x", delta_color |-> "normal"]

\* Lines 120-137 for one country whose two lookups found a row.
MetricCard(idx, country, first_raw, last_raw) ==
    LET first_gdp == Div(first_raw, Num(BILLION))
        last_gdp  == Div(last_raw, Num(BILLION))
        growth    == Growth(first_gdp, last_gdp)
    IN  [kind |-> "metric",
         col |-> idx % NumCols,
         label |-> country \o " GDP",
         value |-> FormatComma0f(last_gdp) \o "B USD",
         delta |-> growth.delta,
         delta_color |-> growth.delta_color]

Exception(type) == [kind |-> "exception", type |-> type]

\* ------------------------------------------------------------------- state

VARIABLES
    raw_gdp_df,          \* what pd.read_csv returns for data/gdp_data.csv
    cache,               \* the st.cache_data entry of load_gdp_data
    computed,            \* how often the body of load_gdp_data has returned
    session,             \* the widgets the session holds a value for
    from_year, to_year,  \* value of the slider
    selected_countries,  \* value of the multiselect, in order of selection
    pc,                  \* where the current run of the script is
    gdp_df,              \* script variable of the current run
    filtered_gdp_df,     \* script variable of the current run
    i,                   \* loop variable of the metric loop
    page                 \* the elements the current run has put on the page

vars == <<raw_gdp_df, cache, computed, session, from_year, to_year,
          selected_countries, pc, gdp_df, filtered_gdp_df, i, page>>

Init ==
    /\ raw_gdp_df \in RawTables
    /\ cache = [filled |-> FALSE, df |-> <<>>]
    /\ computed = 0
    /\ session = {}
    /\ from_year = MIN_YEAR
    /\ to_year = MAX_YEAR
    /\ selected_countries = <<>>
    /\ pc = "idle"
    /\ gdp_df = <<>>
    /\ filtered_gdp_df = <<>>
    /\ i = 0
    /\ page = <<>>

\* ------------------------------------------------- the script, top to bottom

\* A run begins: Streamlit clears the page and executes the script anew.
StartRun ==
    /\ pc' = "load"
    /\ gdp_df' = <<>>
    /\ filtered_gdp_df' = <<>>
    /\ i' = 0
    /\ page' = <<>>

\* A cache that never finds its entry.
CacheNeverHit(c) == FALSE

\* st.cache_data: is there an entry for load_gdp_data()?
CacheHit(c) == c.filled

\* Line 46, entry found: the body does not run.
LoadCached ==
    /\ pc = "load"
    /\ CacheHit(cache)
    /\ gdp_df' = cache.df
    /\ pc' = "controls"
    /\ UNCHANGED <<raw_gdp_df, cache, computed, session, from_year, to_year,
                   selected_countries, filtered_gdp_df, i, page>>

\* Line 46, no entry: lines 27-43 run and their result is stored.
LoadCompute ==
    /\ pc = "load"
    /\ ~CacheHit(cache)
    /\ LET loaded == LoadGdpData(raw_gdp_df)
       IN  /\ ~loaded.raises
           /\ cache' = [filled |-> TRUE, df |-> loaded.df]
           /\ gdp_df' = loaded.df
    /\ computed' = computed + 1
    /\ pc' = "controls"
    /\ UNCHANGED <<raw_gdp_df, session, from_year, to_year, selected_countries,
                   filtered_gdp_df, i, page>>

\* Line 46, no entry, and melt raises KeyError: nothing is stored and the
\* run ends with the exception on the page.
LoadFail ==
    /\ pc = "load"
    /\ ~CacheHit(cache)
    /\ LoadGdpData(raw_gdp_df).raises
    /\ page' = Append(page, Exception("KeyError"))
    /\ pc' = "idle"
    /\ UNCHANGED <<raw_gdp_df, cache, computed, session, from_year, to_year,
                   selected_countries, gdp_df, filtered_gdp_df, i>>

\* Series.min() / Series.max() of the Year column of a frame with rows.
MinYear(df) == CHOOSE y \in {df[k].year : k \in 1..Len(df)} :
                   \A k \in 1..Len(df) : y <= df[k].year

MaxYear(df) == CHOOSE y \in {df[k].year : k \in 1..Len(df)} :
                   \A k \in 1..Len(df) : y >= df[k].year

\* st.multiselect raises StreamlitAPIException when a default value is not
\* one of the options.
MultiselectRaises(options, default) ==
    \E k \in 1..Len(default) : ~IsIn(default[k], options)

Header ==
    <<[kind |-> "title", body |-> "GDP Dashboard by Jaideep"],
      [kind |-> "markdown", body |-> "intro"]>>

\* Lines 51-78 when both widgets are built.  A widget the session has no
\* value for yet returns its default.
Controls ==
    /\ pc = "controls"
    /\ gdp_df # <<>>
    /\ ~MultiselectRaises(Unique(CountryCodes(gdp_df)), DefaultCountries)
    /\ LET min_year == MinYear(gdp_df)
           max_year == MaxYear(gdp_df)
           countries == Unique(CountryCodes(gdp_df))
           years == IF "slider" \in session THEN <<from_year, to_year>>
                    ELSE <<min_year, max_year>>
           chosen == IF "multiselect" \in session THEN selected_countries
                     ELSE DefaultCountries
       IN  /\ from_year' = years[1]
           /\ to_year' = years[2]
           /\ selected_countries' = chosen
           /\ page' = page \o Header \o
                <<[kind |-> "slider", min_value |-> min_year, max_value |-> max_year,
                   value |-> years],
                  [kind |-> "multiselect", options |-> countries, value |-> chosen]>>
    /\ session' = {"slider", "multiselect"}
    /\ pc' = "filter"
    /\ UNCHANGED <<raw_gdp_df, cache, computed, gdp_df, filtered_gdp_df, i>>

\* Lines 51-78 when a widget raises: the frame has no rows, so that min() and
\* max() are NaN, which st.slider rejects; or a default country is no option.
ControlsFail ==
    /\ pc = "controls"
    /\ \/ gdp_df = <<>>
       \/ MultiselectRaises(Unique(CountryCodes(gdp_df)), DefaultCountries)
    /\ IF gdp_df = <<>>
       THEN /\ page' = page \o Header \o <<Exception("StreamlitAPIException")>>
            /\ UNCHANGED <<session, from_year, to_year>>
       ELSE LET years == IF "slider" \in session THEN <<from_year, to_year>>
                         ELSE <<MinYear(gdp_df), MaxYear(gdp_df)>>
            IN  /\ from_year' = years[1]
                /\ to_year' = years[2]
                /\ session' = session \cup {"slider"}
                /\ page' = page \o Header \o
                     <<[kind |-> "slider", min_value |-> MinYear(gdp_df),
                        max_value |-> MaxYear(gdp_df), value |-> years],
                       Exception("StreamlitAPIException")>>
    /\ pc' = "idle"
    /\ UNCHANGED <<raw_gdp_df, cache, computed, selected_countries, gdp_df,
                   filtered_gdp_df, i>>

\* Lines 81-91.
FilterData ==
    /\ pc = "filter"
    /\ page' = IF selected_countries = <<>>
               THEN Append(page, [kind |-> "warning", body |-> WarningText])
               ELSE page
    /\ filtered_gdp_df' = FilterRows(gdp_df, selected_countries, from_year, to_year)
    /\ pc' = "chart"
    /\ UNCHANGED <<raw_gdp_df, cache, computed, session, from_year, to_year,
                   selected_countries, gdp_df, i>>

\* Lines 96-114: the chart of the filtered frame and the header of the
\* comparison.
Chart ==
    /\ pc = "chart"
    /\ page' = page \o
         <<[kind |-> "header", body |-> "GDP Trends Over Time"],
           [kind |-> "line_chart", data |-> filtered_gdp_df],
           [kind |-> "header",
            body |-> "GDP Comparison: " \o ToString(from_year) \o " vs " \o ToString(to_year)]>>
    /\ i' = 0
    /\ pc' = "metrics"
    /\ UNCHANGED <<raw_gdp_df, cache, computed, session, from_year, to_year,
                   selected_countries, gdp_df, filtered_gdp_df>>

\* Series.iat[0] raises IndexError on a series without elements.
IatRaises(series) == series = <<>>

Iat0(series) == series[1]

\* The first lookup one year early.
FirstGdpYearBefore(df, country, from) == CountryGdp(YearData(df, from - 1), country)

\* The second lookup at the last year of the data instead of year_to.
LastGdpAtMaxYear(df, country, to) == CountryGdp(YearData(df, MaxYear(df)), country)

\* The two lookups of lines 120-121 for one country, in the full frame.
FirstGdp(df, country, from) == CountryGdp(YearData(df, from), country)

LastGdp(df, country, to) == CountryGdp(YearData(df, to), country)

\* Lines 116-137, one iteration in which both lookups find a row.
Metric ==
    /\ pc = "metrics"
    /\ i < Len(selected_countries)
    /\ LET country == selected_countries[i + 1]
           first == FirstGdp(gdp_df, country, from_year)
           last  == LastGdp(gdp_df, country, to_year)
       IN  /\ ~IatRaises(first)
           /\ ~IatRaises(last)
           /\ page' = Append(page, MetricCard(i, country, Iat0(first), Iat0(last)))
    /\ i' = i + 1
    /\ UNCHANGED <<raw_gdp_df, cache, computed, session, from_year, to_year,
                   selected_countries, pc, gdp_df, filtered_gdp_df>>

\* Lines 116-121, an iteration in which a lookup finds no row: nothing
\* catches the IndexError and the run ends.
MetricFail ==
    /\ pc = "metrics"
    /\ i < Len(selected_countries)
    /\ LET country == selected_countries[i + 1]
       IN  \/ IatRaises(FirstGdp(gdp_df, country, from_year))
           \/ IatRaises(LastGdp(gdp_df, country, to_year))
    /\ page' = Append(page, Exception("IndexError"))
    /\ pc' = "idle"
    /\ UNCHANGED <<raw_gdp_df, cache, computed, session, from_year, to_year,
                   selected_countries, gdp_df, filtered_gdp_df, i>>

\* Lines 142-143, after the loop.
Footer ==
    /\ pc = "metrics"
    /\ i = Len(selected_countries)
    /\ page' = page \o <<[kind |-> "markdown", body |-> "---"],
                         [kind |-> "markdown", body |-> "Developed by Jaideep"]>>
    /\ pc' = "idle"
    /\ UNCHANGED <<raw_gdp_df, cache, computed, session, from_year, to_year,
                   selected_countries, gdp_df, filtered_gdp_df, i>>

\* ---------------------------------------------------------------- the user

\* The page is opened, or rerun without touching a widget.
Rerun ==
    /\ pc = "idle"
    /\ StartRun
    /\ UNCHANGED <<raw_gdp_df, cache, computed, session, from_year, to_year,
                   selected_countries>>

\* The slider is moved to another range inside its bounds.
MoveSlider ==
    /\ pc = "idle"
    /\ "slider" \in session
    /\ \E from \in MinYear(gdp_df)..MaxYear(gdp_df) :
         \E to \in from..MaxYear(gdp_df) :
            /\ <<from, to>> # <<from_year, to_year>>
            /\ from_year' = from
            /\ to_year' = to
    /\ StartRun
    /\ UNCHANGED <<raw_gdp_df, cache, computed, session, selected_countries>>

\* One more option of the multiselect is picked; it goes to the end.
SelectCountry ==
    /\ pc = "idle"
    /\ "multiselect" \in session
    /\ LET options == Unique(CountryCodes(gdp_df))
       IN  \E k \in 1..Len(options) :
              /\ ~IsIn(options[k], selected_countries)
              /\ selected_countries' = Append(selected_countries, options[k])
    /\ StartRun
    /\ UNCHANGED <<raw_gdp_df, cache, computed, session, from_year, to_year>>

\* One selected country is removed.
DeselectCountry ==
    /\ pc = "idle"
    /\ "multiselect" \in session
    /\ \E k \in 1..Len(selected_countries) :
          selected_countries' =
              SubSeq(selected_countries, 1, k - 1)
              \o SubSeq(selected_countries, k + 1, Len(selected_countries))
    /\ StartRun
    /\ UNCHANGED <<raw_gdp_df, cache, computed, session, from_year, to_year>>

Next ==
    \/ Rerun
    \/ MoveSlider
    \/ SelectCountry
    \/ DeselectCountry
    \/ LoadCached
    \/ LoadCompute
    \/ LoadFail
    \/ Controls
    \/ ControlsFail
    \/ FilterData
    \/ Chart
    \/ Metric
    \/ MetricFail
    \/ Footer

Spec == Init /\ [][Next]_vars

\* ------------------------------------------------- vocabulary of the claims

RawRows == raw_gdp_df.rows

\* Rows of the file that carry `code`.
RowsOf(code) == {r \in 1..Len(RawRows) : RawRows[r]["Country Code"] = code}

\* The first row of the file that carries `code`.
FirstRowOf(code) == CHOOSE r \in RowsOf(code) : \A q \in RowsOf(code) : r <= q

\* The file's cell for a row and a year.
RawCell(r, year) == RawRows[r][ToString(year)]

CellValues == {GdpCycle[k] : k \in 1..Len(GdpCycle)}

OnPage(kind) == {k \in 1..Len(page) : page[k].kind = kind}

IsMetric(e) == e.kind = "metric"

\* The metric cards of the current run, in the order they were drawn.
Metrics == SelectSeq(page, IsMetric)

\* The filtered frame of the current run has been computed.
FilterDone == pc \in {"chart", "metrics"}

\* The current run ended at the last line of the script.
RunComplete ==
    /\ pc = "idle"
    /\ page # <<>>
    /\ page[Len(page)] = [kind |-> "markdown", body |-> "Developed by Jaideep"]

\* ---------------------------------------------------------------------- C1

\* C1: once load_gdp_data has returned, its table has one observation for
\* every row of the file and every year of the range and nothing else:
\* rows * years entries, every year inside the range, and each triple
\* (code, year, value) as often in the table as the file has rows with that
\* code and that cell.  An empty cell (NaN) therefore stays NaN and is never a
\* number.
C1_ReshapeComplete ==
    cache.filled =>
        /\ Len(cache.df) = Len(RawRows) * NumYears
        /\ \A k \in 1..Len(cache.df) : cache.df[k].year \in Years
        /\ \A code \in Codes, y \in Years, v \in CellValues :
              Cardinality({k \in 1..Len(cache.df) :
                              cache.df[k] = [code |-> code, year |-> y, gdp |-> v]})
              = Cardinality({r \in RowsOf(code) : RawCell(r, y) = v})

\* A table was built from a file with two rows, one of them with an empty
\* cell, and the empty cell is in the table as NaN.
C1_Witness ==
    /\ cache.filled
    /\ Len(RawRows) >= 2
    /\ \E r \in 1..Len(RawRows), y \in Years : IsNaN(RawCell(r, y))
    /\ \E k \in 1..Len(cache.df) : IsNaN(cache.df[k].gdp)

\* ---------------------------------------------------------------------- C2

\* C2 as stated: whenever the filter has run with year_from = year_to = y,
\* its result holds exactly one observation for each selected country, and
\* that observation is (code, y, v) with v the file's cell of that country
\* for y.
C2_RoundTripAnyTable ==
    (FilterDone /\ from_year = to_year) =>
        /\ Len(filtered_gdp_df) = Len(selected_countries)
        /\ \A n \in 1..Len(selected_countries) :
              LET code == selected_countries[n]
                  hits == {k \in 1..Len(filtered_gdp_df) : filtered_gdp_df[k].code = code}
              IN  /\ Cardinality(hits) = 1
                  /\ \A k \in hits : \A r \in RowsOf(code) :
                        filtered_gdp_df[k] =
                            [code |-> code, year |-> from_year, gdp |-> RawCell(r, from_year)]

\* C2 as amended: with year_from = year_to = y the result holds, for each
\* selected country, one observation per row of the file with that code, equal
\* to (code, y, that row's cell for y), and nothing else; exactly one for a
\* country that has exactly one row.
C2_RoundTripPerRow ==
    (FilterDone /\ from_year = to_year) =>
        /\ \A k \in 1..Len(filtered_gdp_df) :
              /\ IsIn(filtered_gdp_df[k].code, selected_countries)
              /\ filtered_gdp_df[k].year = from_year
        /\ \A n \in 1..Len(selected_countries) : \A v \in CellValues :
              LET code == selected_countries[n]
              IN  Cardinality({k \in 1..Len(filtered_gdp_df) :
                                  filtered_gdp_df[k] =
                                      [code |-> code, year |-> from_year, gdp |-> v]})
                  = Cardinality({r \in RowsOf(code) : RawCell(r, from_year) = v})

\* The filter has run for a single year with two countries selected, each on
\* one row of the file.
C2_Witness ==
    /\ FilterDone
    /\ from_year = to_year
    /\ Len(selected_countries) = 2
    /\ \A n \in 1..2 : Cardinality(RowsOf(selected_countries[n])) = 1
    /\ Len(filtered_gdp_df) = 2

\* ---------------------------------------------------------------------- C3

\* Indices of the full table whose row the selection asks for.
Wanted ==
    {k \in 1..Len(gdp_df) :
        /\ gdp_df[k].code \in {selected_countries[n] : n \in 1..Len(selected_countries)}
        /\ from_year <= gdp_df[k].year
        /\ gdp_df[k].year <= to_year}

\* C3: the filter result is the subsequence of the full table, in the
\* table's order, of the rows whose country is selected and whose year is
\* in [year_from, year_to]: its n-th row is the table's row at the n-th
\* smallest wanted index, and there are as many rows as wanted indices.
C3_FilterIsSubsequence ==
    FilterDone =>
        /\ Len(filtered_gdp_df) = Cardinality(Wanted)
        /\ \A n \in 1..Len(filtered_gdp_df) :
              \E k \in Wanted :
                 /\ Cardinality({m \in Wanted : m < k}) = n - 1
                 /\ filtered_gdp_df[n] = gdp_df[k]

\* The filter kept two rows, dropped a row of a selected country for its
\* year and dropped a row of the kept year for its country.
C3_Witness ==
    /\ FilterDone
    /\ Len(filtered_gdp_df) >= 2
    /\ \E k \in 1..Len(gdp_df) :
          /\ IsIn(gdp_df[k].code, selected_countries)
          /\ gdp_df[k].year < from_year
    /\ \E k \in 1..Len(gdp_df) :
          /\ ~IsIn(gdp_df[k].code, selected_countries)
          /\ gdp_df[k].year = from_year

\* ---------------------------------------------------------------------- C4

\* The multiselect of the current run returned no country.
ZeroSelected ==
    \E k \in OnPage("multiselect") : page[k].value = <<>>

\* C4: in a run in which no country is selected, no exception is raised,
\* the warning is shown, the filter result is empty, the chart is drawn with
\* the empty table, no metric card is drawn, and the run reaches the end of
\* the script.
C4_EmptySelection ==
    ZeroSelected =>
        /\ OnPage("exception") = {}
        /\ OnPage("metric") = {}
        /\ pc # "filter" =>
              /\ \E k \in OnPage("warning") : page[k].body = WarningText
              /\ filtered_gdp_df = <<>>
        /\ pc \in {"metrics", "idle"} =>
              /\ Cardinality(OnPage("line_chart")) = 1
              /\ \A k \in OnPage("line_chart") : page[k].data = <<>>
        /\ pc = "idle" => RunComplete

\* A run with no country selected has ended, for a year range the user chose.
C4_Witness ==
    /\ ZeroSelected
    /\ RunComplete
    /\ <<from_year, to_year>> # <<MIN_YEAR, MAX_YEAR>>

\* ------------------------------------------------------------------ C5, C6

\* The file's GDP of the n-th selected country for a year: the cell of the
\* first row that carries its code.
GdpOfSelected(n, year) == RawCell(FirstRowOf(selected_countries[n]), year)

\* C5: the card of a selected country shows "N/A" as its growth exactly when
\* the file's cell of that country for year_from is empty.  A zero there is
\* a number: the card shows a ratio text, and no exception is raised by the
\* division.
C5_NotAvailableIffMissing ==
    /\ \A n \in 1..Len(Metrics) :
          (Metrics[n].delta = "N/A") <=> IsNaN(GdpOfSelected(n, from_year))
    /\ \A k \in OnPage("exception") :
          page[k].type \in {"KeyError", "StreamlitAPIException", "IndexError"}

\* One page shows a card with "N/A" for a country whose first value is
\* missing and a card with a ratio text for a country whose first value is 0.
C5_Witness ==
    /\ \E n \in 1..Len(Metrics) :
          IsNaN(GdpOfSelected(n, from_year)) /\ Metrics[n].delta = "N/A"
    /\ \E n \in 1..Len(Metrics) :
          GdpOfSelected(n, from_year) = Num(0) /\ Metrics[n].delta # "N/A"

\* The text of a ratio last / first of two amounts of the file, to two
\* decimals: the hundredths h nearest to 100 * last / first.
RatioText(first, last) ==
    IF first = 0
    THEN (IF last = 0 THEN "nanx" ELSE "infx")
    ELSE LET h == CHOOSE c \in 0..((100 * last) \div first + 1) :
                     /\ 2 * (100 * last - c * first) <= first
                     /\ 2 * (c * first - 100 * last) < first
         IN  ToString(h \div 100) \o "."
             \o (IF h % 100 < 10 THEN "0" ELSE "") \o ToString(h % 100) \o "x"

\* C6: when the file's cell of a selected country for year_from is not
\* empty, the growth on its card is the text of cell(year_to) / cell(year_from)
\* with the cells of the file for exactly these two years, whatever the
\* filtered frame holds and although both values are divided by 1e9 first;
\* 100 and 450 give "4.50x".  (A missing cell at year_to gives "nanx".)
C6_GrowthIsRatio ==
    \A n \in 1..Len(Metrics) :
        LET first == GdpOfSelected(n, from_year)
            last  == GdpOfSelected(n, to_year)
        IN  /\ (~IsNaN(first) /\ IsNaN(last)) => Metrics[n].delta = "nanx"
            /\ (~IsNaN(first) /\ ~IsNaN(last)) =>
                  Metrics[n].delta = RatioText(first[1], last[1])
            /\ (first = Num(100) /\ last = Num(450)) => Metrics[n].delta = "4.50x"

\* A card shows "4.50x" for a country with 100 at year_from and 450 at
\* year_to.
C6_Witness ==
    \E n \in 1..Len(Metrics) :
        /\ GdpOfSelected(n, from_year) = Num(100)
        /\ GdpOfSelected(n, to_year) = Num(450)
        /\ from_year < to_year
        /\ Metrics[n].delta = "4.50x"

\* ---------------------------------------------------------------------- C7

\* The full table has no row for the n-th selected country at one of the two
\* boundary years.
RowMissing(n) ==
    \/ ~\E k \in 1..Len(gdp_df) :
           /\ gdp_df[k].year = from_year
           /\ CodeEq(gdp_df[k].code, selected_countries[n])
    \/ ~\E k \in 1..Len(gdp_df) :
           /\ gdp_df[k].year = to_year
           /\ CodeEq(gdp_df[k].code, selected_countries[n])

\* C7: a run that has drawn the chart and has ended shows one card for each
\* selected country, "N/A" on the card of a country for which the table has
\* no row at a boundary year, and no exception.
C7_MissingRowConfined ==
    (pc = "idle" /\ OnPage("line_chart") # {}) =>
        /\ OnPage("exception") = {}
        /\ Len(Metrics) = Len(selected_countries)
        /\ \A n \in 1..Len(Metrics) : RowMissing(n) => Metrics[n].delta = "N/A"

\* ---------------------------------------------------------------------- C8

\* The file lacks the column of a year of the range.
YearColumnAbsent == \E y \in Years : ToString(y) \notin raw_gdp_df.columns

\* C8: with a year column absent, load_gdp_data never returns a table:
\* nothing is cached, no run gets past line 46, the page of a run that has
\* ended shows the KeyError and nothing else, and no widget, chart or metric
\* is ever drawn.
C8_SchemaFailure ==
    YearColumnAbsent =>
        /\ ~cache.filled
        /\ computed = 0
        /\ pc \in {"idle", "load"}
        /\ gdp_df = <<>>
        /\ filtered_gdp_df = <<>>
        /\ session = {}
        /\ page \in {<<>>, <<Exception("KeyError")>>}
        /\ (pc = "idle" /\ page # <<>>) => page = <<Exception("KeyError")>>

\* A run over a file with rows and without one year column has ended with
\* the KeyError.
C8_Witness ==
    /\ YearColumnAbsent
    /\ "Country Code" \in raw_gdp_df.columns
    /\ Len(RawRows) >= 1
    /\ pc = "idle"
    /\ page = <<Exception("KeyError")>>

\* ---------------------------------------------------------------------- C9

\* C9: over all reruns the body of load_gdp_data returns at most once; once
\* the cache holds the table no step changes it, the slider and multiselect
\* steps included; and every run past line 46 works on the cached table.
C9_CacheOnce ==
    [][/\ cache.filled => cache' = cache
       /\ computed' <= 1
       /\ pc' \notin {"idle", "load"} => (cache'.filled /\ gdp_df' = cache'.df)]_vars

\* A later run, started by the user moving the slider and changing the
\* selection, has read the table from the cache.
C9_Witness ==
    /\ pc = "controls"
    /\ computed = 1
    /\ <<from_year, to_year>> # <<MIN_YEAR, MAX_YEAR>>
    /\ selected_countries # DefaultCountries

\* --------------------------------------------------------------------- C10

\* C10 as stated: in the comparison section of any run, the lookups of
\* (country, year_from) and (country, year_to) in the full table find a row
\* for every selected country.
C10_LookupsFindRow ==
    pc = "metrics" =>
        \A n \in 1..Len(selected_countries) :
            /\ ~IatRaises(FirstGdp(gdp_df, selected_countries[n], from_year))
            /\ ~IatRaises(LastGdp(gdp_df, selected_countries[n], to_year))

\* C10 as amended: the lookups find a row for every selected country other
\* than the NaN option, which the multiselect offers when a row of the file
\* has an empty Country Code; a run with no such country selected never ends
\* in an IndexError.
C10_LookupsFindRowOfCode ==
    /\ pc = "metrics" =>
          \A n \in 1..Len(selected_countries) :
              selected_countries[n] # NaNCode => ~RowMissing(n)
    /\ (\A n \in 1..Len(selected_countries) : selected_countries[n] # NaNCode) =>
          \A k \in OnPage("exception") : page[k].type # "IndexError"

\* The metric loop runs for a selection of two countries made by the user,
\* over a year range the user chose, and has drawn both cards.
C10_Witness ==
    /\ pc = "metrics"
    /\ Len(selected_countries) = 2
    /\ selected_countries[1] # "DEU"
    /\ from_year > MIN_YEAR
    /\ Len(Metrics) = 2

====
